---- MODULE Spec2Model ----
(***************************************************************************)
(* The CLI argument schema of src/cli/core/config_definition.rs (CliArg,   *)
(* CliConfig) together with the schema validator and the constraint        *)
(* resolver that work on it.  The declaration types are taken from the     *)
(* source; validate and resolve have no code in the source file and are    *)
(* modelled from sections 4.1 and 4.2 of the specification.                *)
(***************************************************************************)
EXTENDS Integers, Sequences, FiniteSets, TLC

VARIABLES tree, mode, hashOrder, pc, calls, errors, reported, invoked, observed, violations

vars == <<tree, mode, hashOrder, pc, calls, errors, reported, invoked, observed, violations>>

(* ------------------------------ bounds --------------------------------- *)

\* largest number of values one argument is given in an invocation,
\* and largest number_of_values / min_values / max_values declared
MaxCount == 3

\* number of times validate is called on the loaded tree
MaxCalls == 2

(* --------------------------- Option<T> --------------------------------- *)

\* Option<T>: None is the empty sequence, Some(x) the one-element sequence
None == << >>

Some(x) == <<x>>

IsSome(o) == Len(o) = 1

Unwrap(o) == o[1]

\* Option<bool> read with its default false
IsTrue(o) == IsSome(o) /\ Unwrap(o) = TRUE

Range(s) == {s[i] : i \in 1..Len(s)}

(* ------------------------------ CliArg --------------------------------- *)

\* a CliArg with every optional field None
CliArg(name) ==
  [name |-> name, short |-> None, takes_value |-> None, multiple |-> None,
   number_of_values |-> None, possible_values |-> None,
   min_values |-> None, max_values |-> None,
   required |-> None, required_unless_present |-> None,
   required_unless_present_all |-> None, required_unless_present_any |-> None,
   conflicts_with |-> None, conflicts_with_all |-> None,
   requires |-> None, requires_all |-> None,
   requires_if |-> None, required_if_eq |-> None,
   index |-> None]

\* a CliConfig: args (None is read as the empty list) and subcommands
\* (None is read as the empty map)
CliConfig(args, subcommands) == [args |-> args, subcommands |-> subcommands]

NoSubcommands == [k \in {} |-> 0]

(* --------------------------- SchemaValidator --------------------------- *)

\* a SchemaError: the rule violated, the node (path of subcommand names from
\* the root), the argument and, for a dangling reference, the name referred to
SchemaError(kind, at, name, other) ==
  [kind |-> kind, at |-> at, name |-> name, other |-> other]

\* an Option<String> field and an Option<Vec<String>> field as lists of names
OptSeq(o) == IF IsSome(o) THEN <<Unwrap(o)>> ELSE << >>

OptList(o) == IF IsSome(o) THEN Unwrap(o) ELSE << >>

\* the pair read in the wrong order: its value element taken for the name
PairArgSeq_ValueElement(o) ==
  IF IsSome(o) /\ Len(Unwrap(o)) >= 2 THEN <<Unwrap(o)[2]>> ELSE << >>

\* the argument-name element of an [arg, value] pair
PairArgSeq(o) == IF IsSome(o) /\ Len(Unwrap(o)) >= 1 THEN <<Unwrap(o)[1]>> ELSE << >>

\* conflicts_with_all left unread
ConflictList_SingleOnly(a) == OptSeq(a.conflicts_with)

\* conflicts_with, and conflicts_with_all which is the same for several names
ConflictList(a) == OptSeq(a.conflicts_with) \o OptList(a.conflicts_with_all)

\* requires_all left unread
RequiresList_SingleOnly(a) == OptSeq(a.requires)

\* requires, and requires_all for several names
RequiresList(a) == OptSeq(a.requires) \o OptList(a.requires_all)

\* the names referred to by an argument, in declaration order of its fields
ReferenceList(a) ==
  ConflictList(a) \o RequiresList(a)
    \o OptSeq(a.required_unless_present)
    \o OptList(a.required_unless_present_all)
    \o OptList(a.required_unless_present_any)
    \o PairArgSeq(a.requires_if) \o PairArgSeq(a.required_if_eq)

\* positions 1..n in order, to select from
Positions(n) == [i \in 1..n |-> i]

\* the last positional argument taken as the last one declared
IsMaxIndex_LastDeclared(args, i) ==
  \A j \in 1..Len(args) : IsSome(args[j].index) => j <= i

\* the largest positional index declared in a node
IsMaxIndex(args, i) ==
  \A j \in 1..Len(args) :
    IsSome(args[j].index) => Unwrap(args[j].index) <= Unwrap(args[i].index)

\* a name is a sibling of the argument at position i when another
\* ArgumentRule of the same node carries it
IsSibling(args, i, r) == \E j \in 1..Len(args) : j # i /\ args[j].name = r

DuplicateNameErrors(args, at) ==
  LET Dup(i) == \E j \in 1..(i - 1) : args[j].name = args[i].name
      hit == SelectSeq(Positions(Len(args)), Dup)
  IN  [k \in 1..Len(hit) |-> SchemaError("DuplicateName", at, args[hit[k]].name, "")]

DuplicateShortErrors(args, at) ==
  LET Dup(i) == /\ IsSome(args[i].short)
                /\ \E j \in 1..(i - 1) : args[j].short = args[i].short
      hit == SelectSeq(Positions(Len(args)), Dup)
  IN  [k \in 1..Len(hit) |-> SchemaError("DuplicateShort", at, args[hit[k]].name, "")]

DuplicateIndexErrors(args, at) ==
  LET Dup(i) == /\ IsSome(args[i].index)
                /\ \E j \in 1..(i - 1) : args[j].index = args[i].index
      hit == SelectSeq(Positions(Len(args)), Dup)
  IN  [k \in 1..Len(hit) |-> SchemaError("DuplicateIndex", at, args[hit[k]].name, "")]

InvalidMultiplePositionErrors(args, at) ==
  LET Bad(i) == /\ IsTrue(args[i].multiple)
                /\ IsSome(args[i].index)
                /\ ~IsMaxIndex(args, i)
      hit == SelectSeq(Positions(Len(args)), Bad)
  IN  [k \in 1..Len(hit) |->
         SchemaError("InvalidMultiplePosition", at, args[hit[k]].name, "")]

RECURSIVE DanglingReferenceErrors(_, _, _)
DanglingReferenceErrors(args, at, i) ==
  IF i > Len(args) THEN << >>
  ELSE LET refs == ReferenceList(args[i])
           Dangling(r) == ~IsSibling(args, i, r)
           bad == SelectSeq(refs, Dangling)
       IN  [k \in 1..Len(bad) |->
              SchemaError("DanglingReference", at, args[i].name, bad[k])]
             \o DanglingReferenceErrors(args, at, i + 1)

InvalidValueBoundsErrors(args, at) ==
  LET Bad(i) == /\ IsSome(args[i].min_values)
                /\ IsSome(args[i].max_values)
                /\ Unwrap(args[i].min_values) > Unwrap(args[i].max_values)
      hit == SelectSeq(Positions(Len(args)), Bad)
  IN  [k \in 1..Len(hit) |-> SchemaError("InvalidValueBounds", at, args[hit[k]].name, "")]

\* the checks of one node, in the order of the contract
NodeErrors(args, at) ==
  DuplicateNameErrors(args, at) \o DuplicateShortErrors(args, at)
    \o DuplicateIndexErrors(args, at) \o InvalidMultiplePositionErrors(args, at)
    \o DanglingReferenceErrors(args, at, 1) \o InvalidValueBoundsErrors(args, at)

\* the subcommand names the model uses; a HashMap iterates its keys in an
\* order of its own, here one of the two directions of this list
SubcommandNames == <<"build", "dev", "run">>

Reverse(s) == [i \in 1..Len(s) |-> s[Len(s) + 1 - i]]

KeyOrder(order) == IF order = "forward" THEN SubcommandNames ELSE Reverse(SubcommandNames)

\* the subcommands left unvisited
SubcommandKeys_None(node, order) == << >>

\* only the first subcommand visited
SubcommandKeys_FirstOnly(node, order) ==
  LET Has(key) == key \in DOMAIN node.subcommands
      keys == SelectSeq(KeyOrder(order), Has)
  IN  IF keys = << >> THEN << >> ELSE <<Head(keys)>>

\* the keys of a node's subcommands in the order the map iterates them
SubcommandKeys(node, order) ==
  LET Has(key) == key \in DOMAIN node.subcommands
  IN  SelectSeq(KeyOrder(order), Has)

RECURSIVE ValidateAll(_, _, _)
RECURSIVE ValidateChildren(_, _, _, _)
\* every violation of the tree under node, the node's own first and then
\* each subcommand's in iteration order
ValidateAll(node, at, order) ==
  NodeErrors(node.args, at) \o ValidateChildren(node, at, order, 1)

ValidateChildren(node, at, order, k) ==
  IF k > Len(SubcommandKeys(node, order)) THEN << >>
  ELSE LET key == SubcommandKeys(node, order)[k]
       IN  ValidateAll(node.subcommands[key], Append(at, key), order)
             \o ValidateChildren(node, at, order, k + 1)

\* validate(node): Ok is the empty list; an error is the first violation
\* found, or the aggregated list when the implementation aggregates
validate(node, how, order) ==
  LET all == ValidateAll(node, << >>, order)
  IN  IF how = "first" /\ all # << >> THEN <<Head(all)>> ELSE all

(* -------------------------- ConstraintResolver ------------------------- *)

\* what an invocation supplies for one argument: its values in order, and
\* for a flag whether it was given
Supplied(marked, values) == [marked |-> marked, values |-> values]

Absent == Supplied(FALSE, << >>)

ValuesOf(obs, name) == IF name \in DOMAIN obs THEN obs[name].values ELSE << >>

\* step 1: observed contains the name with at least one value, or the flag
\* is marked present
is_present(obs, name) ==
  /\ name \in DOMAIN obs
  /\ (Len(obs[name].values) >= 1 \/ obs[name].marked)

\* observed[other] == value
ValueEquals(obs, other, value) == ValuesOf(obs, other) = <<value>>

\* the condition of an [arg, value] pair holds in the invocation
PairHolds(o, obs) ==
  /\ IsSome(o)
  /\ Len(Unwrap(o)) = 2
  /\ ValueEquals(obs, Unwrap(o)[1], Unwrap(o)[2])

\* the value of the pair ignored: active as soon as arg is present
RequiresIfActive_AnyValue(a, obs) ==
  /\ IsSome(a.requires_if)
  /\ is_present(obs, Unwrap(a.requires_if)[1])

\* requires_if: the requirement is active when arg's value equals value
RequiresIfActive(a, obs) == PairHolds(a.requires_if, obs)

\* the condition applied only to an argument that is required already
RequiredIfEqActive_NeedsRequired(a, obs) ==
  IsTrue(a.required) /\ PairHolds(a.required_if_eq, obs)

\* required_if_eq: the argument is required when arg's value equals value
RequiredIfEqActive(a, obs) == PairHolds(a.required_if_eq, obs)

\* required_unless_present: not required when this other argument is present
UnlessPresent(a, obs) ==
  /\ IsSome(a.required_unless_present)
  /\ is_present(obs, Unwrap(a.required_unless_present))

\* required_unless_present_all: not required when all of these are present
UnlessAllPresent(a, obs) ==
  /\ IsSome(a.required_unless_present_all)
  /\ \A n \in Range(Unwrap(a.required_unless_present_all)) : is_present(obs, n)

\* any read as all
UnlessAnyPresent_All(a, obs) ==
  /\ IsSome(a.required_unless_present_any)
  /\ \A n \in Range(Unwrap(a.required_unless_present_any)) : is_present(obs, n)

\* required_unless_present_any: not required when at least one of these is present
UnlessAnyPresent(a, obs) ==
  /\ IsSome(a.required_unless_present_any)
  /\ \E n \in Range(Unwrap(a.required_unless_present_any)) : is_present(obs, n)

\* step 2: effective requiredness, in the fixed precedence order
EffectiveRequired(a, obs) ==
  LET base == IsTrue(a.required)
      afterUnless == IF UnlessPresent(a, obs) THEN FALSE ELSE base
      afterAll == IF UnlessAllPresent(a, obs) THEN FALSE ELSE afterUnless
      afterAny == IF UnlessAnyPresent(a, obs) THEN FALSE ELSE afterAll
  IN  IF RequiredIfEqActive(a, obs) THEN TRUE ELSE afterAny

\* the bound taken as exclusive
MinSatisfied_Strict(a, n) == IsSome(a.min_values) => n > Unwrap(a.min_values)

\* min_values: satisfied by that many values or more
MinSatisfied(a, n) == IsSome(a.min_values) => n >= Unwrap(a.min_values)

\* max_values: satisfied by up to that many values
MaxSatisfied(a, n) == IsSome(a.max_values) => n <= Unwrap(a.max_values)

\* step 7: number_of_values is exact when set, else min_values..=max_values
CountInRange(a, n) ==
  IF IsSome(a.number_of_values)
    THEN n = Unwrap(a.number_of_values)
    ELSE MinSatisfied(a, n) /\ MaxSatisfied(a, n)

ConstraintViolation(kind, name, other) == [kind |-> kind, name |-> name, other |-> other]

\* a violation is pushed once
PushNew(acc, v) == IF v \in Range(acc) THEN acc ELSE Append(acc, v)

\* a conflict is pushed once per pair, whichever side reports it
PushConflict(acc, name, other) ==
  IF ConstraintViolation("ConflictingArguments", other, name) \in Range(acc)
    THEN acc
    ELSE PushNew(acc, ConstraintViolation("ConflictingArguments", name, other))

RECURSIVE CheckConflicts(_, _, _, _, _)
\* step 3
CheckConflicts(acc, a, names, obs, k) ==
  IF k > Len(names) THEN acc
  ELSE CheckConflicts(
         IF is_present(obs, a.name) /\ is_present(obs, names[k])
           THEN PushConflict(acc, a.name, names[k]) ELSE acc,
         a, names, obs, k + 1)

RECURSIVE CheckRequires(_, _, _, _, _)
\* step 4
CheckRequires(acc, a, names, obs, k) ==
  IF k > Len(names) THEN acc
  ELSE CheckRequires(
         IF is_present(obs, a.name) /\ ~is_present(obs, names[k])
           THEN PushNew(acc, ConstraintViolation("MissingDependency", a.name, names[k]))
           ELSE acc,
         a, names, obs, k + 1)

RECURSIVE CheckValues(_, _, _, _)
\* step 6
CheckValues(acc, a, values, k) ==
  IF k > Len(values) THEN acc
  ELSE CheckValues(
         IF IsSome(a.possible_values) /\ values[k] \notin Range(Unwrap(a.possible_values))
           THEN PushNew(acc, ConstraintViolation("InvalidValue", a.name, values[k]))
           ELSE acc,
         a, values, k + 1)

\* steps 2 to 7 for one ArgumentRule
ResolveArg(acc, a, obs) ==
  LET s2 == IF EffectiveRequired(a, obs) /\ ~is_present(obs, a.name)
              THEN PushNew(acc, ConstraintViolation("MissingRequired", a.name, ""))
              ELSE acc
      s3 == CheckConflicts(s2, a, ConflictList(a), obs, 1)
      s4 == CheckRequires(s3, a, RequiresList(a), obs, 1)
      s5 == IF RequiresIfActive(a, obs) /\ ~is_present(obs, a.name)
              THEN PushNew(s4, ConstraintViolation("MissingConditionalDependency",
                                                   a.name, Unwrap(a.requires_if)[1]))
              ELSE s4
      s6 == CheckValues(s5, a, ValuesOf(obs, a.name), 1)
  IN  IF CountInRange(a, Len(ValuesOf(obs, a.name)))
        THEN s6
        ELSE PushNew(s6, ConstraintViolation("ValueCountOutOfRange", a.name, ""))

RECURSIVE ResolveFrom(_, _, _, _)
ResolveFrom(args, obs, i, acc) ==
  IF i > Len(args) THEN acc
  ELSE ResolveFrom(args, obs, i + 1, ResolveArg(acc, args[i], obs))

\* resolve(node, observed): Ok is the empty list, else the violations found
resolve(node, obs) == ResolveFrom(node.args, obs, 1, << >>)

(* ------------------------------ the tree ------------------------------- *)

RECURSIVE NodePaths(_)
\* the paths of subcommand names that lead from node to its descendants
NodePaths(node) ==
  {<< >>} \cup UNION {{<<k>> \o p : p \in NodePaths(node.subcommands[k])} :
                        k \in DOMAIN node.subcommands}

RECURSIVE NodeAt(_, _)
NodeAt(node, path) ==
  IF path = << >> THEN node ELSE NodeAt(node.subcommands[Head(path)], Tail(path))

\* recursion of resolve: the node of each level of the invoked command,
\* resolved with the observed values scoped to it
ResolveLevels(root, path, obs) ==
  [k \in 1..(Len(path) + 1) |-> resolve(NodeAt(root, SubSeq(path, 1, k - 1)), obs[k])]

(* ------------------------- invocation inputs --------------------------- *)

Values == {"x", "y"}

RECURSIVE SeqsUpTo(_)
SeqsUpTo(n) ==
  IF n = 0 THEN {<< >>}
  ELSE LET shorter == SeqsUpTo(n - 1)
       IN  shorter \cup {Append(q, v) : q \in {r \in shorter : Len(r) = n - 1}, v \in Values}

\* an argument that may be given several values
IsMultiValued(a) ==
  \/ IsTrue(a.multiple)
  \/ IsSome(a.number_of_values) \/ IsSome(a.min_values) \/ IsSome(a.max_values)

\* what a front end can supply for an argument: a flag is marked or not,
\* an option carries its values
SuppliedFor(a) ==
  IF ~IsTrue(a.takes_value) THEN {Absent, Supplied(TRUE, << >>)}
  ELSE {Supplied(FALSE, q) : q \in SeqsUpTo(IF IsMultiValued(a) THEN MaxCount ELSE 1)}

RECURSIVE ObservedFrom(_, _)
ObservedFrom(args, i) ==
  IF i > Len(args) THEN {[n \in {} |-> Absent]}
  ELSE {(args[i].name :> e) @@ f : e \in SuppliedFor(args[i]), f \in ObservedFrom(args, i + 1)}

\* the observed mappings of one node
ObservedSet(node) == ObservedFrom(node.args, 1)

RECURSIVE ObservedLevels(_, _, _)
\* one observed mapping per level of the invoked path, from level k on
ObservedLevels(root, path, k) ==
  IF k > Len(path) + 1 THEN {<< >>}
  ELSE {<<o>> \o rest : o \in ObservedSet(NodeAt(root, SubSeq(path, 1, k - 1))),
                        rest \in ObservedLevels(root, path, k + 1)}

(* ----------------------- the declarations loaded ----------------------- *)

Opt(S) == {None} \cup {Some(x) : x \in S}

Flag(name) == CliArg(name)

Option(name) == [CliArg(name) EXCEPT !.takes_value = Some(TRUE)]

Leaf(args) == CliConfig(args, NoSubcommands)

\* a subcommand that reuses the argument name of its parent
BuildLeaf == Leaf(<<[Flag("a") EXCEPT !.required = Some(TRUE)]>>)

WithBuild(args) == CliConfig(args, [k \in {"build"} |-> BuildLeaf])

\* requirement constraints on a, with b and c as the siblings referred to
RequirementTrees ==
  {WithBuild(<<[Flag("a") EXCEPT !.required = r,
                                 !.required_unless_present = u,
                                 !.required_unless_present_all = ua,
                                 !.required_unless_present_any = uy,
                                 !.required_if_eq = e],
               Option("b"),
               Option("c")>>) :
     r \in Opt({TRUE, FALSE}), u \in Opt({"b"}), ua \in Opt({<<"b", "c">>}),
     uy \in Opt({<<"b", "c">>}), e \in Opt({<<"b", "x">>})}

\* mutual-exclusion constraints among the flags a, b, c
ConflictTrees ==
  {WithBuild(<<[Flag("a") EXCEPT !.conflicts_with = ca, !.conflicts_with_all = cla],
               [Flag("b") EXCEPT !.conflicts_with = cb, !.conflicts_with_all = clb],
               [Flag("c") EXCEPT !.conflicts_with = cc]>>) :
     ca \in Opt({"b", "c"}), cla \in Opt({<<"b">>, <<"b", "c">>}),
     cb \in Opt({"a"}), clb \in Opt({<<"a", "c">>}), cc \in Opt({"a", "b"})}

\* dependency constraints
DependencyTrees ==
  {WithBuild(<<[Flag("a") EXCEPT !.requires = q, !.requires_all = qa,
                                 !.requires_if = qi, !.required_if_eq = e],
               [Option("b") EXCEPT !.requires_if = qb],
               Option("c")>>) :
     q \in Opt({"b"}), qa \in Opt({<<"b", "c">>}),
     qi \in Opt({<<"b", "x">>, <<"c", "y">>}), e \in Opt({<<"b", "x">>}),
     qb \in Opt({<<"c", "x">>})}

\* value-count constraints on one option
CardinalityTrees ==
  {Leaf(<<[Option("a") EXCEPT !.multiple = Some(TRUE),
                              !.number_of_values = nv,
                              !.min_values = lo, !.max_values = hi]>>) :
     nv \in Opt(0..MaxCount), lo \in Opt(0..MaxCount), hi \in Opt(0..MaxCount)}

\* several kinds of constraint in one node
MixedTrees ==
  {Leaf(<<a, b, c>>) :
     a \in {[Flag("a") EXCEPT !.required = Some(TRUE)],
            [Flag("a") EXCEPT !.required = Some(TRUE), !.conflicts_with = Some("b")],
            [Flag("a") EXCEPT !.requires = Some("c"), !.requires_all = Some(<<"c", "b">>)]},
     b \in {[Flag("b") EXCEPT !.required = Some(TRUE)],
            [Flag("b") EXCEPT !.conflicts_with_all = Some(<<"a", "c">>)],
            [Flag("b") EXCEPT !.required_if_eq = Some(<<"c", "x">>),
                              !.requires_if = Some(<<"c", "x">>)]},
     c \in {[Option("c") EXCEPT !.required = Some(TRUE)],
            [Option("c") EXCEPT !.possible_values = Some(<<"y">>), !.min_values = Some(2)],
            [Option("c") EXCEPT !.conflicts_with = Some("a"),
                                !.possible_values = Some(<<"x">>)]}}

\* one or two positional arguments, possibly duplicated
PositionalArg(name) ==
  {[Flag(name) EXCEPT !.index = ix, !.multiple = m] : ix \in Opt({1, 2}), m \in Opt({TRUE})}

PositionalLists ==
  UNION {{<<p, q>> : p \in PositionalArg("a"), q \in PositionalArg(n)} : n \in {"a", "b"}}

\* few of these, for the subcommands
SmallLists ==
  {<<Flag("a")>>,
   <<Flag("a"), Flag("a")>>,
   <<[Flag("a") EXCEPT !.short = Some("s")], [Flag("b") EXCEPT !.short = Some("s")]>>,
   <<[Flag("a") EXCEPT !.index = Some(1), !.multiple = Some(TRUE)],
     [Flag("b") EXCEPT !.index = Some(2)]>>,
   <<[Flag("a") EXCEPT !.index = Some(1)],
     [Flag("b") EXCEPT !.index = Some(2), !.multiple = Some(TRUE)]>>,
   <<[Option("a") EXCEPT !.min_values = Some(2), !.max_values = Some(1)]>>,
   <<[Flag("a") EXCEPT !.requires = Some("b")]>>}

\* a root with the subcommands build and dev, and run under build
PositionalTrees ==
  {CliConfig(top, ("build" :> CliConfig(mid, [k \in {"run"} |-> Leaf(low)]))
                    @@ ("dev" :> Leaf(side))) :
     top \in PositionalLists, mid \in SmallLists,
     low \in {<<Flag("a")>>, <<Flag("a"), Flag("a")>>, <<[Flag("a") EXCEPT !.requires = Some("b")]>>},
     side \in {<<Flag("a")>>, <<Flag("b"), Flag("b")>>}}

\* three positional arguments
TriplePositionalTrees ==
  {Leaf(<<[Flag("a") EXCEPT !.index = Some(ia), !.multiple = ma],
          [Flag("b") EXCEPT !.index = Some(ib), !.multiple = mb],
          [Flag("c") EXCEPT !.index = Some(3), !.multiple = mc]>>) :
     ia \in {1, 2}, ib \in {1, 2}, ma \in Opt({TRUE}), mb \in Opt({TRUE}),
     mc \in Opt({TRUE})}

ReferenceFields ==
  {"conflicts_with", "conflicts_with_all", "requires", "requires_all",
   "required_unless_present", "required_unless_present_all",
   "required_unless_present_any", "requires_if", "required_if_eq"}

\* the value of a reference field that names target
ReferenceTo(field, target) ==
  IF field \in {"conflicts_with", "requires", "required_unless_present"}
    THEN Some(target)
  ELSE IF field \in {"requires_if", "required_if_eq"} THEN Some(<<target, "x">>)
  ELSE Some(<<"b", target>>)

\* a references target; b is its sibling, c is declared only in the parent
\* or only in the subcommand, z nowhere
ReferenceTrees ==
  {IF inner
     THEN CliConfig(<<Flag("c")>>,
            [k \in {"build"} |->
               Leaf(<<[Flag("a") EXCEPT ![field] = ReferenceTo(field, target)],
                      Option("b")>>)])
     ELSE CliConfig(<<[Flag("a") EXCEPT ![field] = ReferenceTo(field, target)],
                      Option("b")>>,
            [k \in {"build"} |-> Leaf(<<Flag("c")>>)]) :
     field \in ReferenceFields, target \in {"a", "b", "c", "z"}, inner \in BOOLEAN}

Trees ==
  RequirementTrees \cup ConflictTrees \cup DependencyTrees \cup CardinalityTrees
    \cup MixedTrees \cup PositionalTrees \cup TriplePositionalTrees \cup ReferenceTrees

(* ----------------------------- the machine ----------------------------- *)

Init ==
  /\ tree \in Trees
  /\ mode \in {"first", "all"}
  /\ hashOrder \in {"forward", "backward"}
  /\ pc = "loaded"
  /\ calls = 0
  /\ errors = << >>
  /\ reported = {}
  /\ invoked = << >>
  /\ observed = << >>
  /\ violations = << >>

\* validate is called at load time on the tree as declared; the tool starts
\* only when it is Ok
Validate ==
  /\ pc \in {"loaded", "validated", "rejected"}
  /\ calls < MaxCalls
  /\ calls' = calls + 1
  /\ errors' = validate(tree, mode, hashOrder)
  /\ reported' = reported \cup Range(errors')
  /\ pc' = IF errors' = << >> THEN "validated" ELSE "rejected"
  /\ UNCHANGED <<tree, mode, hashOrder, invoked, observed, violations>>

\* the invocation of the tool: the command at path is invoked and every level
\* of it is resolved against the values observed for it
Resolve ==
  /\ pc = "validated"
  /\ \E path \in NodePaths(tree) :
       \E obs \in ObservedLevels(tree, path, 1) :
         /\ invoked' = path
         /\ observed' = obs
         /\ violations' = ResolveLevels(tree, path, obs)
  /\ pc' = "resolved"
  /\ UNCHANGED <<tree, mode, hashOrder, calls, errors, reported>>

Next == Validate \/ Resolve

Spec == Init /\ [][Next]_vars

(* ------------------------ properties of resolve ------------------------ *)

\* the levels of the invocation that was resolved
Levels == 1..Len(violations)

LevelArgs(k) == NodeAt(tree, SubSeq(invoked, 1, k - 1)).args

Entry(kind, name, other) == [kind |-> kind, name |-> name, other |-> other]

Reports(k, kind, name, other) ==
  \E i \in 1..Len(violations[k]) : violations[k][i] = Entry(kind, name, other)

\* the [arg, value] pair o is set and the values observed for arg are value
PairObserved(o, obs) ==
  /\ o # None
  /\ o[1][1] \in DOMAIN obs
  /\ obs[o[1][1]].values = <<o[1][2]>>

Given(obs, name) ==
  name \in DOMAIN obs /\ (obs[name].values # << >> \/ obs[name].marked)

\* a declares name in conflicts_with or in conflicts_with_all
DeclaresConflict(a, name) ==
  \/ a.conflicts_with = <<name>>
  \/ /\ a.conflicts_with_all # None
     /\ \E i \in 1..Len(a.conflicts_with_all[1]) : a.conflicts_with_all[1][i] = name

DeclaresRequires(a, name) ==
  \/ a.requires = <<name>>
  \/ /\ a.requires_all # None
     /\ \E i \in 1..Len(a.requires_all[1]) : a.requires_all[1][i] = name

\* the count of values is outside what the argument declares
CountViolated(a, n) ==
  \/ a.number_of_values # None /\ n # a.number_of_values[1]
  \/ /\ a.number_of_values = None
     /\ \/ a.min_values # None /\ n < a.min_values[1]
        \/ a.max_values # None /\ n > a.max_values[1]

\* the constraint violations of one node in one invocation, a conflict
\* standing once for its pair with the argument declared first named first
ExpectedViolations(args, obs) ==
  LET ix == 1..Len(args)
  IN  {Entry("MissingRequired", args[i].name, "") :
         i \in {j \in ix : EffectiveRequired(args[j], obs) /\ ~Given(obs, args[j].name)}}
      \cup {Entry("ConflictingArguments", args[q[1]].name, args[q[2]].name) :
              q \in {r \in ix \X ix :
                       /\ r[1] < r[2]
                       /\ Given(obs, args[r[1]].name) /\ Given(obs, args[r[2]].name)
                       /\ \/ DeclaresConflict(args[r[1]], args[r[2]].name)
                          \/ DeclaresConflict(args[r[2]], args[r[1]].name)}}
      \cup {Entry("MissingDependency", args[q[1]].name, args[q[2]].name) :
              q \in {r \in ix \X ix :
                       /\ Given(obs, args[r[1]].name) /\ ~Given(obs, args[r[2]].name)
                       /\ DeclaresRequires(args[r[1]], args[r[2]].name)}}
      \cup {Entry("MissingConditionalDependency", args[i].name, args[i].requires_if[1][1]) :
              i \in {j \in ix : /\ PairObserved(args[j].requires_if, obs)
                                /\ ~Given(obs, args[j].name)}}
      \cup UNION {{Entry("InvalidValue", args[i].name, v) :
                     v \in {w \in Range(obs[args[i].name].values) :
                              /\ args[i].possible_values # None
                              /\ w \notin Range(args[i].possible_values[1])}} : i \in ix}
      \cup {Entry("ValueCountOutOfRange", args[i].name, "") :
              i \in {j \in ix : CountViolated(args[j], Len(obs[args[j].name].values))}}

\* a conflict entry named with the argument declared first in front
Canonical(args, v) ==
  IF /\ v.kind = "ConflictingArguments"
     /\ \E i, j \in 1..Len(args) : i < j /\ args[i].name = v.other /\ args[j].name = v.name
    THEN Entry(v.kind, v.other, v.name)
    ELSE v

\* C1: resolve returns exactly the violations of the invocation, each once:
\* none is dropped after a first failure and none is added
C1_Completeness ==
  \A k \in Levels :
    LET expected == ExpectedViolations(LevelArgs(k), observed[k])
    IN  /\ {Canonical(LevelArgs(k), v) : v \in Range(violations[k])} = expected
        /\ Len(violations[k]) = Cardinality(expected)

\* two required arguments are both absent and each is reported, next to a
\* violation of another kind
C1_Witness ==
  /\ pc = "resolved"
  /\ Len(violations[1]) >= 3
  /\ \E m, n \in DOMAIN observed[1] :
       /\ m # n
       /\ Reports(1, "MissingRequired", m, "") /\ Reports(1, "MissingRequired", n, "")
  /\ \E i \in 1..Len(violations[1]) : violations[1][i].kind # "MissingRequired"

\* C2: a conflict between two present arguments, declared by either or by
\* both, is reported in exactly one entry for the pair
C2_ConflictOncePerPair ==
  \A k \in Levels :
    \A i, j \in 1..Len(LevelArgs(k)) :
      LET a == LevelArgs(k)[i]
          b == LevelArgs(k)[j]
          ForPair(v) == /\ v.kind = "ConflictingArguments"
                        /\ {v.name, v.other} = {a.name, b.name}
      IN  (/\ i # j
           /\ Given(observed[k], a.name) /\ Given(observed[k], b.name)
           /\ DeclaresConflict(a, b.name) \/ DeclaresConflict(b, a.name))
            => Len(SelectSeq(violations[k], ForPair)) = 1

\* both arguments declare the conflict, one of them in both of its fields
C2_Witness ==
  /\ pc = "resolved"
  /\ \E i, j \in 1..Len(LevelArgs(1)) :
       LET a == LevelArgs(1)[i]
           b == LevelArgs(1)[j]
       IN  /\ a.conflicts_with = <<b.name>>
           /\ a.conflicts_with_all # None /\ b.name \in Range(a.conflicts_with_all[1])
           /\ DeclaresConflict(b, a.name)
           /\ Given(observed[1], a.name) /\ Given(observed[1], b.name)
           /\ Reports(1, "ConflictingArguments", a.name, b.name)

\* C3: required_if_eq comes last: when its condition holds and the argument
\* is absent, MissingRequired is reported whatever required and the
\* required_unless_present clauses say
C3_RequiredIfEqLast ==
  \A k \in Levels :
    \A i \in 1..Len(LevelArgs(k)) :
      LET a == LevelArgs(k)[i]
      IN  (PairObserved(a.required_if_eq, observed[k]) /\ ~Given(observed[k], a.name))
            => Reports(k, "MissingRequired", a.name, "")

\* required is not true, a clearing clause has fired, and the argument is
\* reported all the same
C3_Witness ==
  /\ pc = "resolved"
  /\ \E i \in 1..Len(LevelArgs(1)) :
       LET a == LevelArgs(1)[i]
       IN  /\ a.required # <<TRUE>>
           /\ a.required_unless_present # None
           /\ Given(observed[1], a.required_unless_present[1])
           /\ PairObserved(a.required_if_eq, observed[1])
           /\ ~Given(observed[1], a.name)
           /\ Reports(1, "MissingRequired", a.name, "")

C9_Cardinality ==
  \A k \in Levels :
    \A i \in 1..Len(LevelArgs(k)) :
      LET a == LevelArgs(k)[i]
      IN  Reports(k, "ValueCountOutOfRange", a.name, "")
            <=> CountViolated(a, Len(observed[k][a.name].values))

\* min_values = 2 and max_values = 3 with one value supplied
C9_Witness ==
  /\ pc = "resolved"
  /\ \E i \in 1..Len(LevelArgs(1)) :
       LET a == LevelArgs(1)[i]
       IN  /\ a.number_of_values = None
           /\ a.min_values = <<2>> /\ a.max_values = <<3>>
           /\ Len(observed[1][a.name].values) = 1
           /\ Reports(1, "ValueCountOutOfRange", a.name, "")

\* C10: with requires_if = [other, value], an absent argument is reported
\* with MissingConditionalDependency when the values observed for other are
\* value, and requires_if reports nothing for it when they are not
C10_ConditionalDependency ==
  \A k \in Levels :
    \A i \in 1..Len(LevelArgs(k)) :
      LET a == LevelArgs(k)[i]
          Mine(v) == v.kind = "MissingConditionalDependency" /\ v.name = a.name
      IN  a.requires_if # None
            => IF PairObserved(a.requires_if, observed[k]) /\ ~Given(observed[k], a.name)
                 THEN Reports(k, "MissingConditionalDependency", a.name, a.requires_if[1][1])
                 ELSE SelectSeq(violations[k], Mine) = << >>

C10_Witness ==
  /\ pc = "resolved"
  /\ \E i \in 1..Len(LevelArgs(1)) :
       LET a == LevelArgs(1)[i]
       IN  /\ PairObserved(a.requires_if, observed[1])
           /\ ~Given(observed[1], a.name)
           /\ Reports(1, "MissingConditionalDependency", a.name, a.requires_if[1][1])

(* ------------------------ properties of validate ----------------------- *)

Error(kind, at, name, other) == [kind |-> kind, at |-> at, name |-> name, other |-> other]

\* the names an argument refers to in its constraint fields
Referenced(a) ==
  (IF a.conflicts_with = None THEN {} ELSE {a.conflicts_with[1]})
    \cup (IF a.conflicts_with_all = None THEN {} ELSE Range(a.conflicts_with_all[1]))
    \cup (IF a.requires = None THEN {} ELSE {a.requires[1]})
    \cup (IF a.requires_all = None THEN {} ELSE Range(a.requires_all[1]))
    \cup (IF a.required_unless_present = None THEN {} ELSE {a.required_unless_present[1]})
    \cup (IF a.required_unless_present_all = None THEN {}
          ELSE Range(a.required_unless_present_all[1]))
    \cup (IF a.required_unless_present_any = None THEN {}
          ELSE Range(a.required_unless_present_any[1]))
    \cup (IF a.requires_if = None THEN {} ELSE {a.requires_if[1][1]})
    \cup (IF a.required_if_eq = None THEN {} ELSE {a.required_if_eq[1][1]})

\* the argument at position i shares its name with an earlier one
SharesName(args, i) == \E j \in 1..(i - 1) : args[j].name = args[i].name

\* the argument at position i is multiple and positional and a sibling has
\* a higher index
MultipleBelowMax(args, i) ==
  /\ args[i].multiple = <<TRUE>>
  /\ args[i].index # None
  /\ \E j \in 1..Len(args) : args[j].index # None /\ args[j].index[1] > args[i].index[1]

\* r is no other ArgumentRule of the node of the argument at position i
NotASibling(args, i, r) == \A j \in 1..Len(args) : j = i \/ args[j].name # r

\* the structural violations of one node
NodeViolations(args, at) ==
  LET ix == 1..Len(args)
  IN  {Error("DuplicateName", at, args[i].name, "") : i \in {j \in ix : SharesName(args, j)}}
      \cup {Error("DuplicateShort", at, args[i].name, "") :
              i \in {j \in ix : /\ args[j].short # None
                                /\ \E h \in 1..(j - 1) : args[h].short = args[j].short}}
      \cup {Error("DuplicateIndex", at, args[i].name, "") :
              i \in {j \in ix : /\ args[j].index # None
                                /\ \E h \in 1..(j - 1) : args[h].index = args[j].index}}
      \cup {Error("InvalidMultiplePosition", at, args[i].name, "") :
              i \in {j \in ix : MultipleBelowMax(args, j)}}
      \cup UNION {{Error("DanglingReference", at, args[i].name, r) :
                     r \in {q \in Referenced(args[i]) : NotASibling(args, i, q)}} : i \in ix}
      \cup {Error("InvalidValueBounds", at, args[i].name, "") :
              i \in {j \in ix : /\ args[j].min_values # None /\ args[j].max_values # None
                                /\ args[j].min_values[1] > args[j].max_values[1]}}

\* every structural violation present in the declaration, at any node
DeclaredViolations ==
  UNION {NodeViolations(NodeAt(tree, at).args, at) : at \in NodePaths(tree)}

ReportedUnlessMasked(e) ==
  /\ errors # << >>
  /\ (mode = "all" \/ DeclaredViolations = {e}) => e \in Range(errors)

\* C6 as stated: a multiple argument whose index is not the highest of its
\* node makes validate fail with InvalidMultiplePosition, and one holding
\* the highest index does not
C6_AsStated ==
  calls >= 1 =>
    \A at \in NodePaths(tree) :
      LET args == NodeAt(tree, at).args
      IN  \A i \in 1..Len(args) :
            LET e == Error("InvalidMultiplePosition", at, args[i].name, "")
            IN  /\ MultipleBelowMax(args, i) => e \in Range(errors)
                /\ (\A j \in 1..Len(args) :
                      args[j].name = args[i].name => ~MultipleBelowMax(args, j))
                     => e \notin Range(errors)

\* C6 amended: validate fails on such a tree; InvalidMultiplePosition is
\* among the violations returned when validate aggregates or when it is the
\* only violation of the tree; a multiple argument holding the highest
\* index is never reported
C6_MultipleOnlyAtHighestIndex ==
  calls >= 1 =>
    \A at \in NodePaths(tree) :
      LET args == NodeAt(tree, at).args
      IN  \A i \in 1..Len(args) :
            LET e == Error("InvalidMultiplePosition", at, args[i].name, "")
            IN  /\ MultipleBelowMax(args, i) => ReportedUnlessMasked(e)
                /\ (\A j \in 1..Len(args) :
                      args[j].name = args[i].name => ~MultipleBelowMax(args, j))
                     => e \notin Range(errors)

\* of three positional arguments the second is multiple and is reported,
\* the third is multiple too and is not
C6_Witness ==
  /\ calls >= 1
  /\ Len(tree.args) = 3
  /\ tree.args[2].multiple = <<TRUE>> /\ tree.args[3].multiple = <<TRUE>>
  /\ tree.args[2].index = <<2>> /\ tree.args[3].index = <<3>>
  /\ Error("InvalidMultiplePosition", << >>, tree.args[2].name, "") \in Range(errors)
  /\ Error("InvalidMultiplePosition", << >>, tree.args[3].name, "") \notin Range(errors)

\* C7 as stated: two ArgumentRules of one node sharing a name make validate
\* fail with DuplicateName, at any depth, and a name used in two different
\* nodes is no duplicate
C7_AsStated ==
  calls >= 1 =>
    \A at \in NodePaths(tree) :
      LET args == NodeAt(tree, at).args
      IN  \A i \in 1..Len(args) :
            LET e == Error("DuplicateName", at, args[i].name, "")
            IN  (\E j \in 1..Len(args) : SharesName(args, j) /\ args[j].name = args[i].name)
                  <=> e \in Range(errors)

\* C7 amended: validate fails on such a tree, at any depth; DuplicateName
\* is among the violations returned when validate aggregates or when it is
\* the only violation of the tree; a name used in two different nodes is
\* never reported
C7_DuplicateNameAtAnyDepth ==
  calls >= 1 =>
    \A at \in NodePaths(tree) :
      LET args == NodeAt(tree, at).args
      IN  \A i \in 1..Len(args) :
            LET e == Error("DuplicateName", at, args[i].name, "")
                dup == \E j \in 1..Len(args) :
                         SharesName(args, j) /\ args[j].name = args[i].name
            IN  /\ dup => ReportedUnlessMasked(e)
                /\ ~dup => e \notin Range(errors)

\* the duplicate sits two levels down, its name is used in the root too,
\* and it is reported for the subcommand only
C7_Witness ==
  /\ calls >= 1
  /\ \E at \in NodePaths(tree) :
       /\ Len(at) = 2
       /\ \E n \in {tree.args[i].name : i \in 1..Len(tree.args)} :
            /\ Error("DuplicateName", at, n, "") \in Range(errors)
            /\ Error("DuplicateName", << >>, n, "") \notin Range(errors)

\* C8 as stated: a name in any of the nine reference fields that is not
\* another ArgumentRule of the same node makes validate fail with
\* DanglingReference, and on a tree validate accepts every referenced name
\* is a sibling
C8_AsStated ==
  calls >= 1 =>
    \A at \in NodePaths(tree) :
      LET args == NodeAt(tree, at).args
      IN  \A i \in 1..Len(args) :
            \A r \in Referenced(args[i]) :
              /\ NotASibling(args, i, r)
                   => Error("DanglingReference", at, args[i].name, r) \in Range(errors)
              /\ errors = << >> => ~NotASibling(args, i, r)

\* C8 amended: validate fails on such a tree; DanglingReference is among
\* the violations returned when validate aggregates or when it is the only
\* violation of the tree; on a tree validate accepts every referenced name
\* is a sibling
C8_NoDanglingReference ==
  calls >= 1 =>
    \A at \in NodePaths(tree) :
      LET args == NodeAt(tree, at).args
      IN  \A i \in 1..Len(args) :
            \A r \in Referenced(args[i]) :
              /\ NotASibling(args, i, r)
                   => ReportedUnlessMasked(Error("DanglingReference", at, args[i].name, r))
              /\ errors = << >> => ~NotASibling(args, i, r)

\* an argument of a subcommand refers to a name declared in the parent only
\* and is reported
C8_Witness ==
  /\ calls >= 1
  /\ \E e \in Range(errors) :
       /\ e.kind = "DanglingReference"
       /\ e.at # << >>
       /\ \E i \in 1..Len(tree.args) : tree.args[i].name = e.other

====
